---- MODULE Spec2Model ----
(***************************************************************************)
(* fcache: a memoizing function cache (osmike/fcache).                     *)
(*                                                                         *)
(*   core.Storage   LRU + TTL store with a background sweeper              *)
(*                  (src/internal/core/storage.go)                         *)
(*   core.cache     the wrapped call: store probe, single-flight slot,     *)
(*                  user function, hooks, store insert                     *)
(*                  (src/internal/lib/errs/errors.go, lines 262-464)       *)
(*   keygen         the fingerprint of an argument (same file, 96-233)     *)
(*   hooks          hook dispatch (same file, 29-94)                       *)
(*                                                                         *)
(* Specifications over the same state:                                     *)
(*   Spec       concurrent callers of the wrapped function;                *)
(*   SpecTTL    one caller, the clock and the sweeper goroutine;           *)
(*   SpecHooks  one caller whose hooks may fail and whose argument may     *)
(*              have no fingerprint;                                       *)
(*   SpecStore  a client driving Storage.Set/Get/Delete directly, the      *)
(*              sweeper goroutine and the clock;                           *)
(*   SpecRace   goroutines inside Storage.Get and Storage.Set, step by     *)
(*              step under Storage.mu;                                     *)
(*   SpecKey    keygen.BuildKey applied to maps, slices and structs.       *)
(***************************************************************************)
EXTENDS Integers, Sequences, FiniteSets, TLC

\* ------------------------------------------------------------------ bounds
NumCallers == 2      \* goroutines calling the wrapped function
NumArgs    == 2      \* distinct arguments they pass
MaxCalls   == 4      \* calls of the wrapped function issued in a run
NumKeys    == 3      \* distinct keys of the direct store client
MaxOps     == 5      \* Set/Get/Delete operations of the direct store client
MaxTime    == 4      \* clock ticks in a run

MaxCapacity == 2     \* the configured capacity is drawn from 1 .. MaxCapacity
MaxJSON    == 102    \* the JSON text of a fingerprinted value has 2 .. MaxJSON bytes

\* ----------------------------------------------------------- configuration
ttl == 1             \* Storage.ttl (Config.TTL), in clock ticks

VARIABLES
  \* core.Storage
  data,            \* map[string]*StorageItem: key -> [Value, Timestamp]
  ll,              \* container/list of keys, front (index 1) = most recent
  elems,           \* map[string]*list.Element: key -> position of its node in ll
  capacity,        \* Storage.capacity (Config.Capacity)
  cleanupRunning,  \* bool
  stopCleanup,     \* chan struct{}: "open" or "closed"
  sweepers,        \* number of live startCleanup goroutines
  now,             \* the clock (time.Now), in ticks
  crashed,         \* an unrecovered panic in a goroutine ended the program
  \* core.cache
  mu,              \* cache.mu: 0 = free, else the caller holding it
  inflight,        \* map[string]*inflightCall: key -> slot id
  slots,           \* the inflightCall objects: id -> [val, err, done, owner]
  pc,              \* each caller's position in cache.call
  arg,             \* each caller's argument
  ic,              \* each caller's inflightCall reference (0 = none)
  val,             \* each caller's named result val
  err,             \* each caller's named result err
  ret,             \* what each caller's last call returned
  \* Storage.mu and the goroutines inside Storage.Get / Storage.Set
  smu,             \* sync.RWMutex: [readers: the RLock holders, writer: the Lock holder or 0]
  gpc,             \* each goroutine's position in Get / Set: [pc, key, value]
  \* keygen
  kin,             \* the value handed to keygen.BuildKey
  kout,            \* what BuildKey returned for it: [key, err]
  \* history
  issued,          \* calls / store operations issued so far
  recency,         \* stored keys by last successful Get or Set, newest first
  evict,           \* what the last Set's capacity check did
  res,             \* what the direct store client's last operation returned
  hist,            \* per-caller facts about the current call
  fnOk             \* the arguments on which f has returned without error

storeVars == <<data, ll, elems, cleanupRunning, stopCleanup, sweepers>>
confVars  == <<capacity>>
cacheVars == <<mu, inflight, slots, pc, arg, ic, val, err, ret>>
lockVars  == <<smu, gpc>>
keyVars   == <<kin, kout>>
ghostVars == <<issued, recency, evict, res, hist, fnOk>>
vars == <<storeVars, confVars, now, crashed, cacheVars, lockVars, keyVars,
         ghostVars>>

\* ------------------------------------------------------------- keygen
Args == 1 .. NumArgs

\* an argument json.Marshal rejects (a channel, a function value)
BadArg == 0

\* keygen.maxLen
maxLen == 100

\* Go values as keygen sees them: the dynamic type, and n, the number itself
\* for an int, the length of the JSON text for a value json.Marshal accepts.
Chan == [type |-> "chan", n |-> 0]
GoValue(a) == IF a = BadArg THEN Chan ELSE [type |-> "int", n |-> a]

MapTypes == {"map[string]interface{}", "map[string]int"}
ComplexTypes == MapTypes \cup {"[]int", "struct"}
ComplexValues == [type : ComplexTypes, n : 2 .. MaxJSON]

\* the decimal text of a non-negative int has this many characters
RECURSIVE Digits(_)
Digits(i) == IF i < 10 THEN 1 ELSE 1 + Digits(i \div 10)

\* keygen.hashBytes: the 64 hex characters of the SHA-256 of the bytes
hashBytes(d) == [s |-> [form |-> "sha256hex", of |-> d], n |-> 64, err |-> "nil"]

\* keygen.shouldHashData
shouldHashData(d) == d.n > maxLen

\* keygen.encodeComplex: json.Marshal, then the type switch: only the dynamic
\* type map[string]interface{} takes the first case.
encodeComplex(v) ==
  IF v.type = "chan"
  THEN [s |-> "", n |-> 0, err |-> "ErrMarshallJSON"]
  ELSE IF v.type = "map[string]interface{}"
  THEN hashBytes(v)
  ELSE IF shouldHashData(v)
  THEN hashBytes(v)
  ELSE [s |-> [form |-> "json", of |-> v], n |-> v.n, err |-> "nil"]

\* keygen.encodeValue: fmt.Sprint(val), the decimal text, on an int; the
\* default case on every other value of the model.
encodeValue(v) ==
  IF v.type = "int"
  THEN [s |-> ToString(v.n), n |-> Digits(v.n), err |-> "nil"]
  ELSE encodeComplex(v)

\* BuildKey without its error check: the encoding error is dropped
BuildKeyNoCheck(value) ==
  [key |-> IF encodeValue(value).err # "nil" THEN "" ELSE encodeValue(value).s,
   err |-> "nil"]

\* keygen.BuildKey
BuildKey(value) ==
  LET encoded == encodeValue(value)
  IN IF encoded.err # "nil"
     THEN [key |-> "", err |-> "ErrBuildKey"]
     ELSE IF encoded.n > maxLen
     THEN [key |-> hashBytes(value).s, err |-> "nil"]
     ELSE [key |-> encoded.s, err |-> "nil"]

Keys == {BuildKey(GoValue(i)).key : i \in 1 .. NumKeys}

\* ------------------------------------------------------------- list helpers
Restrict(f, S) == [x \in S |-> f[x]]

\* list.Remove of the node at position p
RemoveAt(l, p) == SubSeq(l, 1, p - 1) \o SubSeq(l, p + 1, Len(l))

\* a MoveToFront that leaves the list as it is
NoMove(l, p) == l

\* list.MoveToFront of the node at position p
MoveToFront(l, p) == <<l[p]>> \o RemoveAt(l, p)

\* the handles after the node at position p was removed
HandlesAfterRemove(h, p) ==
  [k \in DOMAIN h |-> IF h[k] > p THEN h[k] - 1 ELSE h[k]]

\* the handles after the node at position p was moved to the front
HandlesAfterMove(h, p) ==
  [k \in DOMAIN h |-> IF h[k] = p THEN 1 ELSE IF h[k] < p THEN h[k] + 1 ELSE h[k]]

\* ------------------------------------------------------------- core.Storage
Store ==
  [data |-> data, ll |-> ll, elems |-> elems, cleanupRunning |-> cleanupRunning,
   stopCleanup |-> stopCleanup, sweepers |-> sweepers]

\* NewStorage
NewStorage ==
  [data |-> <<>>, ll |-> <<>>, elems |-> <<>>, cleanupRunning |-> FALSE,
   stopCleanup |-> "open", sweepers |-> 0]

Expired(item) == now - item.Timestamp > ttl

\* a deleteProxy that forgets delete(s.elems, key)
deleteProxyLeak(S, key) ==
  IF key \in DOMAIN S.elems
  THEN [store |-> [S EXCEPT !.ll = RemoveAt(S.ll, S.elems[key]),
                            !.data = Restrict(S.data, DOMAIN S.data \ {key})],
        panic |-> FALSE]
  ELSE [store |-> S, panic |-> FALSE]

\* Storage.deleteProxy: the store afterwards, and whether close(stopCleanup)
\* panicked (close of a closed channel).
deleteProxy(S, key) ==
  IF key \in DOMAIN S.elems
  THEN LET p  == S.elems[key]
           S1 == [S EXCEPT !.ll = RemoveAt(S.ll, p),
                           !.elems = HandlesAfterRemove(
                                       Restrict(S.elems, DOMAIN S.elems \ {key}), p),
                           !.data = Restrict(S.data, DOMAIN S.data \ {key})]
       IN IF DOMAIN S1.data = {} /\ S1.cleanupRunning
          THEN [store |-> [S1 EXCEPT !.cleanupRunning = FALSE,
                                     !.stopCleanup = "closed"],
                panic |-> S1.stopCleanup = "closed"]
          ELSE [store |-> S1, panic |-> FALSE]
  ELSE [store |-> S, panic |-> FALSE]

\* Storage.Get
Get(S, key) ==
  IF key \in DOMAIN S.elems
  THEN LET p    == S.elems[key]
           S1   == [S EXCEPT !.ll = MoveToFront(S.ll, p),
                             !.elems = HandlesAfterMove(S.elems, p)]
           item == S.data[key]
       IN IF Expired(item)
          THEN LET d == deleteProxy(S1, key)
               IN [store |-> d.store, value |-> 0, found |-> FALSE, panic |-> d.panic]
          ELSE [store |-> S1, value |-> item.Value, found |-> TRUE, panic |-> FALSE]
  ELSE [store |-> S, value |-> 0, found |-> FALSE, panic |-> FALSE]

\* Storage.Set
Set(S, key, value) ==
  LET item   == [Value |-> value, Timestamp |-> now]
      ll1    == <<key>> \o S.ll
      elems1 == [k \in DOMAIN S.elems \cup {key} |->
                   IF k = key THEN 1 ELSE S.elems[k] + 1]
      data1  == [k \in DOMAIN S.data \cup {key} |->
                   IF k = key THEN item ELSE S.data[k]]
      over   == Cardinality(DOMAIN data1) > capacity
      oldKey == ll1[Len(ll1)]
      start  == ~S.cleanupRunning
  IN [data |-> IF over THEN Restrict(data1, DOMAIN data1 \ {oldKey}) ELSE data1,
      ll |-> IF over THEN SubSeq(ll1, 1, Len(ll1) - 1) ELSE ll1,
      elems |-> IF over THEN Restrict(elems1, DOMAIN elems1 \ {oldKey}) ELSE elems1,
      cleanupRunning |-> TRUE,
      stopCleanup |-> S.stopCleanup,
      sweepers |-> IF start THEN S.sweepers + 1 ELSE S.sweepers]

\* Storage.Delete
Delete(S, key) == deleteProxy(S, key)

\* Storage.cleanupExpired: deleteProxy on every expired key, in some order.
\* Only the deleteProxy that empties the store touches the channel, and it is
\* the last one, so the order does not show in the result.
RECURSIVE deleteAll(_, _)
deleteAll(S, keys) ==
  IF keys = {}
  THEN [store |-> S, panic |-> FALSE]
  ELSE LET k == CHOOSE x \in keys : TRUE
           d == deleteProxy(S, k)
       IN IF d.panic THEN d ELSE deleteAll(d.store, keys \ {k})

cleanupExpired(S) ==
  deleteAll(S, {k \in DOMAIN S.data : Expired(S.data[k])})


\* ------------------------------------------------------------- history
\* the ideal recency order after a successful Get or Set of key k
Touch(rec, k) ==
  LET Other(x) == x # k IN <<k>> \o SelectSeq(rec, Other)

\* the ideal recency order restricted to the keys still stored
Prune(rec, dom) ==
  LET Kept(x) == x \in dom IN SelectSeq(rec, Kept)

NoEvict == [over |-> FALSE, gone |-> {}, lru |-> ""]

\* what the capacity check of Set(key, _) does to store S
EvictOf(S, T, key) ==
  LET rec1 == Touch(recency, key)
  IN [over |-> Cardinality(DOMAIN S.data \cup {key}) > capacity,
      gone |-> (DOMAIN S.data \cup {key}) \ DOMAIN T.data,
      lru  |-> rec1[Len(rec1)]]

StoreBecomes(S) ==
  /\ data' = S.data
  /\ ll' = S.ll
  /\ elems' = S.elems
  /\ cleanupRunning' = S.cleanupRunning
  /\ stopCleanup' = S.stopCleanup
  /\ sweepers' = S.sweepers

\* ------------------------------------------------------------- hooks
HookOutcomes == {"ok", "error", "panic"}
LogOutcomes  == {"ok", "panic"}

\* LogError called without the deferred recover
bareLogError(logOutcome) == [logs |-> 1, panic |-> logOutcome = "panic"]

\* hooks.Hooks.safeLogError: LogError is invoked once under a deferred
\* recover; logs is the number of invocations, panic whether a panic leaves
\* safeLogError.
safeLogError(logOutcome) ==
  LET panicked  == logOutcome = "panic"
      recovered == TRUE
  IN [logs |-> 1, panic |-> panicked /\ ~recovered]

\* hooks.Hooks.Run: a hook that returns an error is forwarded to safeLogError;
\* a hook that panics is recovered by the deferred function and forwarded to
\* safeLogError.
Run(outcome, logOutcome) ==
  CASE outcome = "ok"    -> [logs |-> 0, panic |-> FALSE]
    [] outcome = "error" -> safeLogError(logOutcome)
    [] outcome = "panic" -> safeLogError(logOutcome)

\* ------------------------------------------------------------- core.cache
Callers == 1 .. NumCallers
SlotIds == 1 .. (NumCallers + NumArgs)

\* the user function fn(arg): what one invocation may do. "valerr" is a
\* non-zero value returned together with an error.
FnVal(a) == 2 * a
FnKinds == {"ok", "err", "valerr", "panic"}
fn(a, kind) ==
  CASE kind = "ok"     -> [val |-> FnVal(a), err |-> "nil"]
    [] kind = "err"    -> [val |-> 0, err |-> "E"]
    [] kind = "valerr" -> [val |-> FnVal(a), err |-> "E"]
    [] kind = "panic"  -> [val |-> 0, err |-> "nil"]

NoSlot == [val |-> 0, err |-> "nil", done |-> FALSE, owner |-> 0]
NoRet  == [val |-> 0, err |-> "none", at |-> 0]
NoHist == [role |-> "none", during |-> FALSE, after |-> FALSE, stale |-> FALSE,
           fresh |-> FALSE,
           fn |-> "none", logPanic |-> 0, logFn |-> 0, logHook |-> 0,
           logPanicked |-> FALSE, hookFail |-> 0, ev |-> <<>>]

KeyOf(p) == BuildKey(GoValue(arg[p])).key

\* the inflightCall objects still referenced once caller p drops its reference
Referenced(p) ==
  {inflight[k] : k \in DOMAIN inflight} \cup {ic[q] : q \in Callers \ {p}}

Collect(p) ==
  [s \in SlotIds |-> IF s \in Referenced(p) THEN slots[s] ELSE NoSlot]

\* cache.call's deferred recover: the (val, err) the call returns after a
\* panic was recovered with named results (v, e). LogError(panicErr) runs
\* under its own deferred recover; when it panics, the assignments
\* err = panicErr and val = zero after it are skipped.
Recovered(v, e, logOutcome) ==
  IF logOutcome = "ok"
  THEN [val |-> 0, err |-> "ErrPanic"]
  ELSE [val |-> v, err |-> e]

Returned(r) == [val |-> r.val, err |-> r.err, at |-> now]

\* the record of a call after c.hooks.Run(hook, arg) with the given outcomes
Hooked(h, name, o, lo) ==
  [h EXCEPT !.ev = Append(@, name),
            !.hookFail = @ + (IF o = "ok" THEN 0 ELSE 1),
            !.logHook = @ + Run(o, lo).logs]

\* the record of a call whose hook dispatch let a panic through: the
\* deferred recover of cache.call calls LogError with the panic
Unwound(h, lo) ==
  [h EXCEPT !.logPanic = @ + 1, !.logPanicked = lo = "panic"]

\* cache.call, lines 401-413: BuildKey (on its failure return zero, err),
\* the store probe, and on a panic of the probe (close of a closed channel
\* in deleteProxy) the deferred recover.
Call(p, a, lo) ==
  /\ ~crashed
  /\ pc[p] = "idle"
  /\ issued < MaxCalls
  /\ LET bk  == BuildKey(GoValue(a))
         key == bk.key
         g   == IF bk.err # "nil"
                THEN [store |-> Store, value |-> 0, found |-> FALSE, panic |-> FALSE]
                ELSE Get(Store, key)
         h0  == [NoHist EXCEPT
                   !.during = \E q \in Callers \ {p} : pc[q] = "fn" /\ arg[q] = a,
                   !.after  = \E q \in Callers :
                                 /\ pc[q] = "idle" /\ arg[q] = a
                                 /\ hist[q].role \in {"hit", "wait", "exec"}
                                 /\ hist[q].fn \in {"none", "ok"}
                                 /\ ret[q].err = "nil" /\ ret[q].at = now,
                   !.stale  = key \in DOMAIN data /\ Expired(data[key]),
                   !.fresh  = key \in DOMAIN data /\ ~Expired(data[key])]
     IN /\ StoreBecomes(g.store)
        /\ recency' = IF g.found THEN Touch(recency, key)
                      ELSE Prune(recency, DOMAIN g.store.data)
        /\ evict' = NoEvict
        /\ arg' = [arg EXCEPT ![p] = a]
        /\ ic' = [ic EXCEPT ![p] = 0]
        /\ slots' = Collect(p)
        /\ issued' = issued + 1
        /\ IF bk.err # "nil"
           THEN /\ pc' = pc
                /\ val' = [val EXCEPT ![p] = 0]
                /\ err' = [err EXCEPT ![p] = bk.err]
                /\ ret' = [ret EXCEPT ![p] = Returned([val |-> 0, err |-> bk.err])]
                /\ hist' = [hist EXCEPT ![p] = [h0 EXCEPT !.role = "nokey"]]
           ELSE IF g.panic
           THEN /\ pc' = pc
                /\ val' = [val EXCEPT ![p] = 0]
                /\ err' = [err EXCEPT ![p] = "nil"]
                /\ ret' = [ret EXCEPT ![p] = Returned(Recovered(0, "nil", lo))]
                /\ hist' = [hist EXCEPT ![p] = [h0 EXCEPT !.role = "probe",
                                                          !.logPanic = 1,
                                                          !.logPanicked = lo = "panic"]]
           ELSE /\ pc' = [pc EXCEPT ![p] = IF g.found THEN "onget" ELSE "lock1"]
                /\ val' = [val EXCEPT ![p] = g.value]
                /\ err' = [err EXCEPT ![p] = "nil"]
                /\ ret' = [ret EXCEPT ![p] = NoRet]
                /\ hist' = [hist EXCEPT ![p] = [h0 EXCEPT !.role =
                                                  IF g.found THEN "hit" ELSE "miss"]]
  /\ UNCHANGED <<keyVars, lockVars, confVars, now, crashed, mu, inflight, res, fnOk>>

\* cache.call, lines 408-412: the OnGet hook, then return val, nil.
OnGet(p, o, lo) ==
  /\ ~crashed
  /\ pc[p] = "onget"
  /\ IF Run(o, lo).panic
     THEN /\ hist' = [hist EXCEPT ![p] = Unwound(Hooked(@, "OnGet", o, lo), lo)]
          /\ ret' = [ret EXCEPT ![p] = Returned(Recovered(0, "nil", lo))]
     ELSE /\ hist' = [hist EXCEPT ![p] = Hooked(@, "OnGet", o, lo)]
          /\ ret' = [ret EXCEPT ![p] = Returned([val |-> val[p], err |-> "nil"])]
  /\ pc' = [pc EXCEPT ![p] = "idle"]
  /\ UNCHANGED <<keyVars, lockVars, storeVars, confVars, now, crashed, mu, inflight, slots, arg, ic,
                 val, err, issued, recency, evict, res, fnOk>>

\* a registration that never joins an existing slot
RegisterNoJoin(p) ==
  /\ ~crashed
  /\ pc[p] = "lock1"
  /\ mu = 0
  /\ LET s == CHOOSE x \in SlotIds :
                 /\ x \notin Referenced(p)
                 /\ \A y \in SlotIds : y \notin Referenced(p) => x <= y
     IN /\ slots' = [slots EXCEPT ![s] = [NoSlot EXCEPT !.owner = p]]
        /\ inflight' = [k \in DOMAIN inflight \cup {KeyOf(p)} |->
                          IF k = KeyOf(p) THEN s ELSE inflight[k]]
        /\ ic' = [ic EXCEPT ![p] = s]
        /\ pc' = [pc EXCEPT ![p] = "onexecute"]
        /\ hist' = [hist EXCEPT ![p].role = "exec"]
  /\ UNCHANGED <<keyVars, lockVars, storeVars, confVars, now, crashed, mu, arg,
                 val, err, ret, issued, recency, evict, res, fnOk>>

\* cache.call, lines 415-427: under c.mu, join the slot of the key or
\* register a fresh one.
Register(p) ==
  /\ ~crashed
  /\ pc[p] = "lock1"
  /\ mu = 0
  /\ IF KeyOf(p) \in DOMAIN inflight
     THEN /\ ic' = [ic EXCEPT ![p] = inflight[KeyOf(p)]]
          /\ pc' = [pc EXCEPT ![p] = "wait"]
          /\ hist' = [hist EXCEPT ![p].role = "wait"]
          /\ UNCHANGED <<inflight, slots>>
     ELSE LET s == CHOOSE x \in SlotIds :
                     /\ x \notin Referenced(p)
                     /\ \A y \in SlotIds : y \notin Referenced(p) => x <= y
          IN /\ slots' = [slots EXCEPT ![s] = [NoSlot EXCEPT !.owner = p]]
             /\ inflight' = [k \in DOMAIN inflight \cup {KeyOf(p)} |->
                               IF k = KeyOf(p) THEN s ELSE inflight[k]]
             /\ ic' = [ic EXCEPT ![p] = s]
             /\ pc' = [pc EXCEPT ![p] = "onexecute"]
             /\ hist' = [hist EXCEPT ![p].role = "exec"]
  /\ UNCHANGED <<keyVars, lockVars, storeVars, confVars, now, crashed, mu, arg, val, err, ret,
                 issued, recency, evict, res, fnOk>>

\* a waiter that returns the zero value with an error, as the executor does
WaitZeroOnErr(p) ==
  /\ ~crashed
  /\ pc[p] = "wait"
  /\ slots[ic[p]].done
  /\ ret' = [ret EXCEPT ![p] = Returned(
               IF slots[ic[p]].err # "nil"
               THEN [val |-> 0, err |-> slots[ic[p]].err]
               ELSE slots[ic[p]])]
  /\ pc' = [pc EXCEPT ![p] = "idle"]
  /\ UNCHANGED <<keyVars, lockVars, storeVars, confVars, now, crashed, mu,
                 inflight, slots, arg, ic, val, err, issued, recency, evict, res,
                 hist, fnOk>>

\* cache.call, lines 419-420: ic.wg.Wait(), then return ic.val, ic.err.
Wait(p) ==
  /\ ~crashed
  /\ pc[p] = "wait"
  /\ slots[ic[p]].done
  /\ ret' = [ret EXCEPT ![p] = Returned(slots[ic[p]])]
  /\ pc' = [pc EXCEPT ![p] = "idle"]
  /\ UNCHANGED <<keyVars, lockVars, storeVars, confVars, now, crashed, mu, inflight, slots, arg, ic,
                 val, err, issued, recency, evict, res, hist, fnOk>>

\* cache.call, lines 430-434: the OnExecute hook, then f is invoked.
OnExecute(p, o, lo) ==
  /\ ~crashed
  /\ pc[p] = "onexecute"
  /\ IF Run(o, lo).panic
     THEN /\ hist' = [hist EXCEPT ![p] = Unwound(Hooked(@, "OnExecute", o, lo), lo)]
          /\ ret' = [ret EXCEPT ![p] = Returned(Recovered(val[p], err[p], lo))]
          /\ slots' = [slots EXCEPT ![ic[p]].owner = 0]
          /\ pc' = [pc EXCEPT ![p] = "idle"]
     ELSE /\ hist' = [hist EXCEPT ![p] = Hooked(@, "OnExecute", o, lo)]
          /\ pc' = [pc EXCEPT ![p] = "fn"]
          /\ UNCHANGED <<ret, slots>>
  /\ UNCHANGED <<keyVars, lockVars, storeVars, confVars, now, crashed, mu, inflight, arg, ic,
                 val, err, issued, recency, evict, res, fnOk>>

\* cache.call, line 434 and lines 375-400: f returns (val, err), or panics
\* and the deferred recover makes the call return.
Fn(p, kind, lo) ==
  /\ ~crashed
  /\ pc[p] = "fn"
  /\ IF kind = "panic"
     THEN /\ ret' = [ret EXCEPT ![p] = Returned(Recovered(val[p], err[p], lo))]
          /\ pc' = [pc EXCEPT ![p] = "idle"]
          /\ slots' = [slots EXCEPT ![ic[p]].owner = 0]
          /\ hist' = [hist EXCEPT ![p].fn = "panic", ![p].logPanic = @ + 1,
                                  ![p].logPanicked = lo = "panic",
                                  ![p].ev = Append(@, "f")]
          /\ UNCHANGED <<val, err>>
     ELSE /\ val' = [val EXCEPT ![p] = fn(arg[p], kind).val]
          /\ err' = [err EXCEPT ![p] = fn(arg[p], kind).err]
          /\ pc' = [pc EXCEPT ![p] = "ondone"]
          /\ hist' = [hist EXCEPT ![p].fn = kind, ![p].ev = Append(@, "f")]
          /\ UNCHANGED <<ret, slots>>
  /\ fnOk' = IF kind = "ok" THEN fnOk \cup {arg[p]} ELSE fnOk
  /\ UNCHANGED <<keyVars, lockVars, storeVars, confVars, now, crashed, mu, inflight, arg, ic,
                 issued, recency, evict, res>>

\* cache.call, lines 436-438: the OnDone hook.
OnDone(p, o, lo) ==
  /\ ~crashed
  /\ pc[p] = "ondone"
  /\ IF Run(o, lo).panic
     THEN /\ hist' = [hist EXCEPT ![p] = Unwound(Hooked(@, "OnDone", o, lo), lo)]
          /\ ret' = [ret EXCEPT ![p] = Returned(Recovered(val[p], err[p], lo))]
          /\ slots' = [slots EXCEPT ![ic[p]].owner = 0]
          /\ pc' = [pc EXCEPT ![p] = "idle"]
     ELSE /\ hist' = [hist EXCEPT ![p] = Hooked(@, "OnDone", o, lo)]
          /\ pc' = [pc EXCEPT ![p] = "lock2"]
          /\ UNCHANGED <<ret, slots>>
  /\ UNCHANGED <<keyVars, lockVars, storeVars, confVars, now, crashed, mu, inflight, arg, ic,
                 val, err, issued, recency, evict, res, fnOk>>

\* the completion without the error check of line 449: every result goes on
\* to the store
CompleteNoErrCheck(p) ==
  /\ ~crashed
  /\ pc[p] = "lock2"
  /\ mu = 0
  /\ mu' = p
  /\ inflight' = Restrict(inflight, DOMAIN inflight \ {KeyOf(p)})
  /\ slots' = [slots EXCEPT ![ic[p]] = [val |-> val[p], err |-> err[p],
                                        done |-> TRUE, owner |-> p]]
  /\ pc' = [pc EXCEPT ![p] = "set"]
  /\ UNCHANGED <<keyVars, lockVars, storeVars, confVars, now, crashed, arg, ic, val, err,
                 ret, issued, recency, evict, res, hist, fnOk>>

\* cache.call, lines 440-447: take c.mu (released by the deferred Unlock when
\* the call returns), remove the in-flight marker, publish the result.
Complete(p) ==
  /\ ~crashed
  /\ pc[p] = "lock2"
  /\ mu = 0
  /\ mu' = p
  /\ inflight' = Restrict(inflight, DOMAIN inflight \ {KeyOf(p)})
  /\ slots' = [slots EXCEPT ![ic[p]] = [val |-> val[p], err |-> err[p],
                                        done |-> TRUE, owner |-> p]]
  /\ pc' = [pc EXCEPT ![p] = IF err[p] # "nil" THEN "logerr" ELSE "set"]
  /\ UNCHANGED <<keyVars, lockVars, storeVars, confVars, now, crashed, arg, ic, val, err, ret,
                 issued, recency, evict, res, hist, fnOk>>

\* cache.call, lines 449-456: LogError(err) and return zero, err. LogError is
\* called bare: its panic unwinds the call (the deferred Unlock runs) into
\* the deferred recover, which calls LogError again.
LogErr(p, lo, lo2) ==
  /\ ~crashed
  /\ pc[p] = "logerr"
  /\ IF lo = "ok"
     THEN /\ ret' = [ret EXCEPT ![p] = Returned([val |-> 0, err |-> err[p]])]
          /\ hist' = [hist EXCEPT ![p].logFn = @ + 1]
     ELSE /\ ret' = [ret EXCEPT ![p] = Returned(Recovered(val[p], err[p], lo2))]
          /\ hist' = [hist EXCEPT ![p].logFn = @ + 1, ![p].logPanic = @ + 1,
                                  ![p].logPanicked = TRUE]
  /\ mu' = 0
  /\ slots' = [slots EXCEPT ![ic[p]].owner = 0]
  /\ pc' = [pc EXCEPT ![p] = "idle"]
  /\ UNCHANGED <<keyVars, lockVars, storeVars, confVars, now, crashed, inflight, arg, ic, val, err,
                 issued, recency, evict, res, fnOk>>

\* cache.call, line 459: c.store.Set(key, val), with c.mu held.
SetResult(p) ==
  /\ ~crashed
  /\ pc[p] = "set"
  /\ LET T == Set(Store, KeyOf(p), val[p])
     IN /\ StoreBecomes(T)
        /\ evict' = EvictOf(Store, T, KeyOf(p))
        /\ recency' = Prune(Touch(recency, KeyOf(p)), DOMAIN T.data)
  /\ pc' = [pc EXCEPT ![p] = "onset"]
  /\ hist' = [hist EXCEPT ![p].ev = Append(@, "Set")]
  /\ UNCHANGED <<keyVars, lockVars, confVars, now, crashed, mu, inflight, slots, arg, ic, val, err,
                 ret, issued, res, fnOk>>

\* cache.call, lines 460-463: the OnSet hook, return val, nil, deferred Unlock.
OnSet(p, o, lo) ==
  /\ ~crashed
  /\ pc[p] = "onset"
  /\ IF Run(o, lo).panic
     THEN /\ hist' = [hist EXCEPT ![p] = Unwound(Hooked(@, "OnSet", o, lo), lo)]
          /\ ret' = [ret EXCEPT ![p] = Returned(Recovered(val[p], err[p], lo))]
     ELSE /\ hist' = [hist EXCEPT ![p] = Hooked(@, "OnSet", o, lo)]
          /\ ret' = [ret EXCEPT ![p] = Returned([val |-> val[p], err |-> "nil"])]
  /\ mu' = 0
  /\ slots' = [slots EXCEPT ![ic[p]].owner = 0]
  /\ pc' = [pc EXCEPT ![p] = "idle"]
  /\ UNCHANGED <<keyVars, lockVars, storeVars, confVars, now, crashed, inflight, arg, ic, val, err,
                 issued, recency, evict, res, fnOk>>

\* ------------------------------------------------------------- the sweeper
\* Storage.startCleanup, case <-ticker.C: cleanupExpired. A panic in this
\* goroutine is recovered by nobody.
SweeperTick ==
  /\ ~crashed
  /\ sweepers > 0
  /\ LET d == cleanupExpired(Store)
     IN /\ StoreBecomes(d.store)
        /\ crashed' = d.panic
        /\ recency' = Prune(recency, DOMAIN d.store.data)
  /\ evict' = NoEvict
  /\ UNCHANGED <<keyVars, lockVars, confVars, now, cacheVars, issued, res, hist, fnOk>>

\* Storage.startCleanup, case <-s.stopCleanup: return.
SweeperExit ==
  /\ ~crashed
  /\ sweepers > 0
  /\ stopCleanup = "closed"
  /\ sweepers' = sweepers - 1
  /\ UNCHANGED <<keyVars, lockVars, data, ll, elems, cleanupRunning, stopCleanup, confVars, now,
                 crashed, cacheVars, ghostVars>>

\* time passes
Tick ==
  /\ ~crashed
  /\ now < MaxTime
  /\ now' = now + 1
  /\ UNCHANGED <<keyVars, lockVars, storeVars, confVars, crashed, cacheVars, ghostVars>>


\* ------------------------------------------------------------- store client
StoreValues == {1, 2}

NoRes == [op |-> "none", key |-> "", value |-> 0, found |-> FALSE, panic |-> FALSE]

\* a goroutine calls Storage.Set(k, v)
StoreSet(k, v) ==
  /\ ~crashed
  /\ issued < MaxOps
  /\ LET T == Set(Store, k, v)
     IN /\ StoreBecomes(T)
        /\ evict' = EvictOf(Store, T, k)
        /\ recency' = Prune(Touch(recency, k), DOMAIN T.data)
  /\ res' = [op |-> "Set", key |-> k, value |-> v, found |-> FALSE, panic |-> FALSE]
  /\ issued' = issued + 1
  /\ UNCHANGED <<keyVars, lockVars, confVars, now, crashed, cacheVars, hist, fnOk>>

\* a goroutine calls Storage.Get(k)
StoreGet(k) ==
  /\ ~crashed
  /\ issued < MaxOps
  /\ LET g == Get(Store, k)
     IN /\ StoreBecomes(g.store)
        /\ recency' = IF g.found THEN Touch(recency, k)
                      ELSE Prune(recency, DOMAIN g.store.data)
        /\ res' = [op |-> "Get", key |-> k, value |-> g.value, found |-> g.found,
                   panic |-> g.panic]
  /\ evict' = NoEvict
  /\ issued' = issued + 1
  /\ UNCHANGED <<keyVars, lockVars, confVars, now, crashed, cacheVars, hist, fnOk>>

\* a goroutine calls Storage.Delete(k)
StoreDelete(k) ==
  /\ ~crashed
  /\ issued < MaxOps
  /\ LET d == Delete(Store, k)
     IN /\ StoreBecomes(d.store)
        /\ recency' = Prune(recency, DOMAIN d.store.data)
        /\ res' = [op |-> "Delete", key |-> k, value |-> 0, found |-> FALSE,
                   panic |-> d.panic]
  /\ evict' = NoEvict
  /\ issued' = issued + 1
  /\ UNCHANGED <<keyVars, lockVars, confVars, now, crashed, cacheVars, hist, fnOk>>

\* ------------------------------------------------------------- Storage.mu
\* Storage.Get and Storage.Set as the goroutines of SpecRace run them: one
\* step per lock operation and per access to the store between them.
NoGo == [pc |-> "idle", key |-> "", value |-> 0]

\* Storage.Get, line 70: s.mu.RLock()
GetRLock(g, k) ==
  /\ ~crashed
  /\ issued < MaxOps
  /\ gpc[g].pc = "idle"
  /\ smu.writer = 0
  /\ smu' = [smu EXCEPT !.readers = @ \cup {g}]
  /\ gpc' = [gpc EXCEPT ![g] = [pc |-> "lookup", key |-> k, value |-> 0]]
  /\ issued' = issued + 1
  /\ UNCHANGED <<keyVars, storeVars, confVars, now, crashed, cacheVars, recency, evict,
                 res, hist, fnOk>>

\* Storage.Get, lines 72-73: look the node up and move it to the front
GetLookup(g) ==
  /\ ~crashed
  /\ gpc[g].pc = "lookup"
  /\ IF gpc[g].key \in DOMAIN elems
     THEN /\ ll' = MoveToFront(ll, elems[gpc[g].key])
          /\ elems' = HandlesAfterMove(elems, elems[gpc[g].key])
          /\ gpc' = [gpc EXCEPT ![g].pc = "check"]
     ELSE /\ gpc' = [gpc EXCEPT ![g].pc = "return"]
          /\ UNCHANGED <<ll, elems>>
  /\ UNCHANGED <<keyVars, data, cleanupRunning, stopCleanup, sweepers, confVars, now,
                 crashed, cacheVars, smu, ghostVars>>

\* Storage.Get, lines 74-81: read the item and check its age; an entry that
\* another goroutine deleted in between is a nil item, and val.Timestamp
\* panics. The deferred RUnlock runs as the call leaves.
GetCheck(g) ==
  /\ ~crashed
  /\ gpc[g].pc = "check"
  /\ LET key == gpc[g].key
     IN IF key \notin DOMAIN data
        THEN /\ res' = [op |-> "Get", key |-> key, value |-> 0, found |-> FALSE,
                        panic |-> TRUE]
             /\ UNCHANGED <<storeVars, recency>>
        ELSE IF Expired(data[key])
        THEN LET d == deleteProxy(Store, key)
             IN /\ StoreBecomes(d.store)
                /\ recency' = Prune(recency, DOMAIN d.store.data)
                /\ res' = [op |-> "Get", key |-> key, value |-> 0, found |-> FALSE,
                           panic |-> d.panic]
        ELSE /\ res' = [op |-> "Get", key |-> key, value |-> data[key].Value,
                        found |-> TRUE, panic |-> FALSE]
             /\ recency' = Touch(recency, key)
             /\ UNCHANGED storeVars
  /\ smu' = [smu EXCEPT !.readers = @ \ {g}]
  /\ gpc' = [gpc EXCEPT ![g] = NoGo]
  /\ evict' = NoEvict
  /\ UNCHANGED <<keyVars, confVars, now, crashed, cacheVars, issued, hist, fnOk>>

\* Storage.Get, lines 83-84: not found; the deferred RUnlock
GetReturn(g) ==
  /\ ~crashed
  /\ gpc[g].pc = "return"
  /\ res' = [op |-> "Get", key |-> gpc[g].key, value |-> 0, found |-> FALSE,
             panic |-> FALSE]
  /\ smu' = [smu EXCEPT !.readers = @ \ {g}]
  /\ gpc' = [gpc EXCEPT ![g] = NoGo]
  /\ UNCHANGED <<keyVars, storeVars, confVars, now, crashed, cacheVars, issued, recency,
                 evict, hist, fnOk>>

\* Storage.Set, line 93: s.mu.Lock()
SetLock(g, k, v) ==
  /\ ~crashed
  /\ issued < MaxOps
  /\ gpc[g].pc = "idle"
  /\ smu.writer = 0
  /\ smu.readers = {}
  /\ smu' = [smu EXCEPT !.writer = g]
  /\ gpc' = [gpc EXCEPT ![g] = [pc |-> "set", key |-> k, value |-> v]]
  /\ issued' = issued + 1
  /\ UNCHANGED <<keyVars, storeVars, confVars, now, crashed, cacheVars, recency, evict,
                 res, hist, fnOk>>

\* Storage.Set, lines 96-119, and the deferred Unlock
SetBody(g) ==
  /\ ~crashed
  /\ gpc[g].pc = "set"
  /\ LET T == Set(Store, gpc[g].key, gpc[g].value)
     IN /\ StoreBecomes(T)
        /\ evict' = EvictOf(Store, T, gpc[g].key)
        /\ recency' = Prune(Touch(recency, gpc[g].key), DOMAIN T.data)
  /\ res' = [op |-> "Set", key |-> gpc[g].key, value |-> gpc[g].value,
             found |-> FALSE, panic |-> FALSE]
  /\ smu' = [smu EXCEPT !.writer = 0]
  /\ gpc' = [gpc EXCEPT ![g] = NoGo]
  /\ UNCHANGED <<keyVars, confVars, now, crashed, cacheVars, issued, hist, fnOk>>

\* ------------------------------------------------------------- keygen, alone
NoKey == [key |-> "", err |-> "none"]

\* a caller fingerprints the value kin
Fingerprint ==
  /\ kout = NoKey
  /\ kout' = BuildKey(kin)
  /\ UNCHANGED <<kin, storeVars, confVars, now, crashed, cacheVars, lockVars,
                 ghostVars>>

\* ------------------------------------------------------------- specifications
InitProgram ==
  /\ data = NewStorage.data
  /\ ll = NewStorage.ll
  /\ elems = NewStorage.elems
  /\ cleanupRunning = NewStorage.cleanupRunning
  /\ stopCleanup = NewStorage.stopCleanup
  /\ sweepers = NewStorage.sweepers
  /\ capacity \in 1 .. MaxCapacity
  /\ now = 0
  /\ crashed = FALSE
  /\ mu = 0
  /\ inflight = <<>>
  /\ slots = [s \in SlotIds |-> NoSlot]
  /\ pc = [p \in Callers |-> "idle"]
  /\ arg = [p \in Callers |-> 1]
  /\ ic = [p \in Callers |-> 0]
  /\ val = [p \in Callers |-> 0]
  /\ err = [p \in Callers |-> "nil"]
  /\ ret = [p \in Callers |-> NoRet]
  /\ issued = 0
  /\ recency = <<>>
  /\ evict = NoEvict
  /\ res = NoRes
  /\ hist = [p \in Callers |-> NoHist]
  /\ fnOk = {}
  /\ smu = [readers |-> {}, writer |-> 0]
  /\ gpc = [g \in Callers |-> NoGo]
  /\ kout = NoKey

Init == InitProgram /\ kin = GoValue(1)

\* SpecKey: keygen.BuildKey applied to a map, a slice or a struct whose JSON
\* text has any length up to MaxJSON.
InitKey == InitProgram /\ kin \in ComplexValues

SpecKey == InitKey /\ [][Fingerprint]_vars

\* Spec: NumCallers goroutines call the wrapped function concurrently, within
\* a stretch of time shorter than one clock tick (nothing expires, a sweeper
\* tick finds nothing to remove). The lifecycle hooks succeed; LogError may
\* panic.
Next ==
  \/ \E p \in Callers, a \in Args, lo \in LogOutcomes : Call(p, a, lo)
  \/ \E p \in Callers : OnGet(p, "ok", "ok")
  \/ \E p \in Callers : Register(p)
  \/ \E p \in Callers : Wait(p)
  \/ \E p \in Callers : OnExecute(p, "ok", "ok")
  \/ \E p \in Callers, kind \in FnKinds, lo \in LogOutcomes : Fn(p, kind, lo)
  \/ \E p \in Callers : OnDone(p, "ok", "ok")
  \/ \E p \in Callers : Complete(p)
  \/ \E p \in Callers, lo \in LogOutcomes, lo2 \in LogOutcomes : LogErr(p, lo, lo2)
  \/ \E p \in Callers : SetResult(p)
  \/ \E p \in Callers : OnSet(p, "ok", "ok")

Spec == Init /\ [][Next]_vars

\* SpecTTL: one goroutine calls the wrapped function again and again while
\* the clock advances and the sweeper runs.
NextTTL ==
  \/ \E a \in Args, lo \in LogOutcomes : Call(1, a, lo)
  \/ OnGet(1, "ok", "ok")
  \/ Register(1)
  \/ OnExecute(1, "ok", "ok")
  \/ \E kind \in FnKinds, lo \in LogOutcomes : Fn(1, kind, lo)
  \/ OnDone(1, "ok", "ok")
  \/ Complete(1)
  \/ \E lo \in LogOutcomes, lo2 \in LogOutcomes : LogErr(1, lo, lo2)
  \/ SetResult(1)
  \/ OnSet(1, "ok", "ok")
  \/ SweeperTick
  \/ SweeperExit
  \/ Tick

SpecTTL == Init /\ [][NextTTL]_vars

\* SpecStore: a client drives the store directly while the clock advances
\* and the sweeper runs.
NextStore ==
  \/ \E k \in Keys, v \in StoreValues : StoreSet(k, v)
  \/ \E k \in Keys : StoreGet(k)
  \/ \E k \in Keys : StoreDelete(k)
  \/ SweeperTick
  \/ SweeperExit
  \/ Tick

SpecStore == Init /\ [][NextStore]_vars

\* SpecHooks: one goroutine calls the wrapped function; each lifecycle hook
\* may succeed, return an error or panic, LogError may panic, and the
\* argument may be one that has no fingerprint.
NextHooks ==
  \/ \E a \in Args \cup {BadArg}, lo \in LogOutcomes : Call(1, a, lo)
  \/ \E o \in HookOutcomes, lo \in LogOutcomes : OnGet(1, o, lo)
  \/ Register(1)
  \/ \E o \in HookOutcomes, lo \in LogOutcomes : OnExecute(1, o, lo)
  \/ \E kind \in FnKinds, lo \in LogOutcomes : Fn(1, kind, lo)
  \/ \E o \in HookOutcomes, lo \in LogOutcomes : OnDone(1, o, lo)
  \/ Complete(1)
  \/ \E lo \in LogOutcomes, lo2 \in LogOutcomes : LogErr(1, lo, lo2)
  \/ SetResult(1)
  \/ \E o \in HookOutcomes, lo \in LogOutcomes : OnSet(1, o, lo)

SpecHooks == Init /\ [][NextHooks]_vars

\* SpecRace: goroutines call Storage.Get and Storage.Set concurrently while
\* the clock advances.
NextRace ==
  \/ \E g \in Callers, k \in Keys : GetRLock(g, k)
  \/ \E g \in Callers : GetLookup(g)
  \/ \E g \in Callers : GetCheck(g)
  \/ \E g \in Callers : GetReturn(g)
  \/ \E g \in Callers, k \in Keys, v \in StoreValues : SetLock(g, k, v)
  \/ \E g \in Callers : SetBody(g)
  \/ Tick

SpecRace == Init /\ [][NextRace]_vars

\* ------------------------------------------------------------- properties
InvokedFn(p) == pc[p] = "fn" \/ hist[p].fn # "none"
HasReturned(p) == pc[p] = "idle" /\ hist[p].role # "none"
InMap(s) == \E k \in DOMAIN inflight : inflight[k] = s

\* C1 (Spec). Single-flight: a call issued while an execution of f for the
\* same argument is in progress never invokes f itself, so that the calls
\* issued during one execution account for exactly one invocation of f.
SingleFlight ==
  \A p \in Callers : hist[p].during => ~InvokedFn(p)

\* C2 (Spec; the clock stands still, so every entry's age is within TTL).
\* Memoization: once a call wrap(a) has returned successfully, a later call
\* wrap(a), with no more distinct arguments in use than the capacity, does
\* not invoke f and returns the value of the first call.
Memoization ==
  \A p \in Callers :
    (hist[p].after /\ capacity >= NumArgs) =>
       /\ ~InvokedFn(p)
       /\ HasReturned(p) => ret[p].val = FnVal(arg[p]) /\ ret[p].err = "nil"

\* C3 (SpecTTL). TTL expiry: a call made when the stored entry of its key is
\* older than TTL invokes f again and, unless f itself fails, returns f's
\* fresh value with a nil error; a call made when the entry's age is within
\* TTL is a hit and does not invoke f. (Stated for calls in which LogError
\* did not panic.)
TTLExpiry ==
  \A p \in Callers :
    /\ (hist[p].fresh /\ hist[p].role # "none") =>
          hist[p].role = "hit" /\ ~InvokedFn(p)
    /\ (hist[p].stale /\ HasReturned(p) /\ ~hist[p].logPanicked
          /\ hist[p].fn \notin {"err", "valerr", "panic"}) =>
          /\ hist[p].fn = "ok"
          /\ ret[p].val = FnVal(arg[p])
          /\ ret[p].err = "nil"

\* C4 (SpecStore). Capacity bound: after every store operation the number of
\* stored entries is at most the configured capacity.
CapacityBound == Cardinality(DOMAIN data) <= capacity

\* C5 (SpecStore). LRU eviction: a Set that makes the store exceed its
\* capacity evicts exactly one key, the stored key whose last successful Get
\* or Set is the oldest.
LRUEviction == evict.over => evict.gone = {evict.lru}

\* C6 (Spec). Error non-caching: when f(a) returned an error, the call
\* returns that error with the zero value, has put no entry for a into the
\* store, and its in-flight slot is no longer in the map.
ErrorNotCached ==
  \A p \in Callers :
    (HasReturned(p) /\ hist[p].fn \in {"err", "valerr"}) =>
       /\ ret[p].val = 0 /\ ret[p].err = "E"
       /\ ~InMap(ic[p])
       /\ arg[p] \notin fnOk => KeyOf(p) \notin DOMAIN data

\* C7 (Spec). Panic containment: when f(a) panicked, the executing call
\* returns the zero value and ErrPanic, LogError was invoked exactly once
\* with that panic, and the store holds no entry for a (f never having
\* succeeded on a).
PanicContained ==
  \A p \in Callers :
    (HasReturned(p) /\ hist[p].fn = "panic") =>
       /\ ret[p].val = 0 /\ ret[p].err = "ErrPanic"
       /\ hist[p].logPanic = 1
       /\ arg[p] \notin fnOk => KeyOf(p) \notin DOMAIN data

\* C8 (Spec). Panic recovery of the key: once a call in which f panicked has
\* returned, its key is Absent again: its slot is no longer in the in-flight
\* map, and no later caller is parked on that slot.
PanicKeyRecovers ==
  \A p \in Callers :
    (HasReturned(p) /\ hist[p].fn = "panic") => ~InMap(ic[p])

\* C9 (Spec). Panic delivery to waiters: once the executor of a slot has
\* returned from a panic of f, the slot is completed with ErrPanic, so that
\* every caller waiting on it is released and returns the executor's error.
PanicReachesWaiters ==
  \A p \in Callers : \A q \in Callers \ {p} :
    (HasReturned(p) /\ hist[p].fn = "panic"
       /\ hist[q].role = "wait" /\ ic[q] = ic[p]) =>
       /\ slots[ic[p]].done
       /\ slots[ic[p]].err = ret[p].err
       /\ pc[q] = "idle" => ret[q].err = ret[p].err /\ ret[q].val = ret[p].val

\* C10 (Spec). Identical results: the executor of a slot and every waiter on
\* it return the same (value, error), whatever f returned. (Stated for
\* executions in which LogError did not panic.)
IdenticalResults ==
  \A p \in Callers, q \in Callers :
    (HasReturned(p) /\ HasReturned(q) /\ ic[p] # 0 /\ ic[p] = ic[q]
       /\ ~hist[p].logPanicked /\ ~hist[q].logPanicked) =>
       ret[p].val = ret[q].val /\ ret[p].err = ret[q].err

\* C11 (SpecHooks). Hook ordering: a hit fires OnGet and nothing else; an
\* executing miss fires OnExecute, then f, then OnDone once f has returned
\* (with or without an error), then inserts into the store and fires OnSet,
\* the last two only when f returned no error; no other call fires a hook.
IsPrefix(s, t) == Len(s) <= Len(t) /\ s = SubSeq(t, 1, Len(s))
ExecOrder == <<"OnExecute", "f", "OnDone", "Set", "OnSet">>
HookIsolation ==
  \A p \in Callers :
    /\ hist[p].logHook = hist[p].hookFail
    /\ (HasReturned(p) /\ hist[p].hookFail > 0) =>
         /\ hist[p].role = "hit" =>
               ret[p].val = FnVal(arg[p]) /\ ret[p].err = "nil"
         /\ hist[p].fn = "ok" =>
               /\ ret[p].val = FnVal(arg[p]) /\ ret[p].err = "nil"
               /\ KeyOf(p) \in DOMAIN data
               /\ data[KeyOf(p)].Value = FnVal(arg[p])
         /\ (hist[p].fn \in {"err", "valerr"} /\ ~hist[p].logPanicked) =>
               ret[p].val = 0 /\ ret[p].err = "E"
         /\ (hist[p].fn = "panic" /\ ~hist[p].logPanicked) =>
               ret[p].val = 0 /\ ret[p].err = "ErrPanic"

HookIsolationWitness ==
  \E p \in Callers :
    /\ HasReturned(p) /\ hist[p].fn = "ok"
    /\ hist[p].hookFail = 3 /\ hist[p].logHook = 3

\* C13 (Spec). LogError isolation: a call in which LogError panicked returns
\* what it returns when LogError does not panic: the zero value with f's error
\* when f returned an error, the zero value with ErrPanic when f panicked.
LogErrorIsolated ==
  \A p \in Callers :
    (HasReturned(p) /\ hist[p].logPanicked) =>
       /\ hist[p].fn \in {"err", "valerr"} => ret[p] = Returned([val |-> 0, err |-> "E"])
       /\ hist[p].fn = "panic" => ret[p].err = "ErrPanic"

\* C14 (SpecHooks). Fingerprint failure: a call whose argument cannot be
\* fingerprinted returns the zero value and ErrBuildKey in one step that
\* invokes neither f nor any hook nor LogError and leaves the store and the
\* in-flight map as they were.
FingerprintFailure ==
  [][\A p \in Callers : \A lo \in LogOutcomes :
       Call(p, BadArg, lo) =>
         /\ ret'[p].val = 0 /\ ret'[p].err = "ErrBuildKey"
         /\ pc'[p] = "idle"
         /\ hist'[p].fn = "none" /\ hist'[p].ev = <<>>
         /\ hist'[p].logHook = 0 /\ hist'[p].logFn = 0 /\ hist'[p].logPanic = 0
         /\ UNCHANGED <<storeVars, inflight, mu>>]_vars

FingerprintFailureWitness ==
  \E p \in Callers :
    /\ HasReturned(p) /\ arg[p] = BadArg
    /\ ret[p].err = "ErrBuildKey" /\ DOMAIN data # {}

\* C15 (SpecTTL). ErrPanic provenance: a call returns ErrPanic only if f
\* panicked during that call. (Stated for calls in which LogError did not
\* panic.)
ErrPanicProvenance ==
  \A p \in Callers :
    (HasReturned(p) /\ ret[p].err = "ErrPanic" /\ ~hist[p].logPanicked) =>
       hist[p].fn = "panic"

\* C16 (SpecRace). Concurrency safety of the store: a goroutine that has moved
\* a node of the recency list inside Get, and is about to read or delete the
\* entry, is the only goroutine inside the store.
ExclusiveMutation ==
  \A g \in Callers :
    gpc[g].pc = "check" => smu.readers = {g} /\ smu.writer = 0

\* C17 (SpecStore). Index/order correspondence: the recency list has exactly
\* one node per stored key and no other node.
IndexOrder ==
  /\ Len(ll) = Cardinality(DOMAIN data)
  /\ DOMAIN elems = DOMAIN data
  /\ \A k \in DOMAIN elems : ll[elems[k]] = k

\* C18 (SpecStore). Stop signal closed at most once: no Get, Delete or
\* sweeper tick closes the stop channel when it is already closed.
StopClosedOnce == ~crashed /\ ~res.panic

\* C19 (SpecStore). Sweeper restart: whenever cleanupRunning is true a
\* sweeper goroutine is alive to react to ticks.
SweeperAlive == cleanupRunning => sweepers > 0

\* C20 (SpecStore). Single sweeper: at most one sweeper goroutine exists at
\* any moment.
SingleSweeper == sweepers <= 1

\* C21 (Spec). Coordinator map accuracy: every slot in the in-flight map
\* belongs to a call that is acting as executor, between registering the slot
\* and completing it, and every such call has its slot in the map.
ExecPhases == {"onexecute", "fn", "ondone", "lock2"}
CoordinatorMap ==
  /\ \A k \in DOMAIN inflight :
       \E p \in Callers :
         ic[p] = inflight[k] /\ KeyOf(p) = k /\ pc[p] \in ExecPhases
  /\ \A p \in Callers :
       pc[p] \in ExecPhases => KeyOf(p) \in DOMAIN inflight

\* C22 (Spec). At most one outstanding execution per key: two calls are never
\* both executors of the same key (between registering a slot and completing
\* it, which includes the invocation of f), and an executor's slot is the one
\* the map holds for its key.
OneExecution ==
  /\ \A p \in Callers : \A q \in Callers \ {p} :
       (pc[p] \in ExecPhases /\ pc[q] \in ExecPhases) => KeyOf(p) # KeyOf(q)
  /\ \A p \in Callers :
       pc[p] \in ExecPhases =>
         KeyOf(p) \in DOMAIN inflight /\ inflight[KeyOf(p)] = ic[p]

OneExecutionWitness ==
  \E p \in Callers : \E q \in Callers \ {p} :
    /\ pc[p] = "fn" /\ pc[q] = "wait" /\ ic[q] = ic[p]
    /\ hist[p].after

\* C23 (Spec). No lock held during user code: a call that is about to run f,
\* a lifecycle hook or LogError does not hold the coordinator mutex.
UserCodePoints == {"onget", "onexecute", "fn", "ondone", "logerr", "onset"}
NoLockInUserCode ==
  \A p \in Callers : pc[p] \in UserCodePoints => mu # p

\* C24 (Spec). Lock discipline: a call that is about to take the store lock
\* in Storage.Set does not hold the coordinator mutex.
LockDiscipline ==
  \A p \in Callers : pc[p] = "set" => mu # p

\* C25 (Spec). LogError once per failure: a call whose f returned an error or
\* panicked has invoked LogError exactly once when it returns, and a waiter
\* invokes neither LogError nor a lifecycle hook.
LogErrorOnce ==
  \A p \in Callers :
    /\ (HasReturned(p) /\ hist[p].fn \in {"err", "valerr", "panic"}) =>
         hist[p].logFn + hist[p].logPanic + hist[p].logHook = 1
    /\ hist[p].role = "wait" =>
         /\ hist[p].ev = <<>>
         /\ hist[p].logFn + hist[p].logPanic + hist[p].logHook = 0

\* C26 (Spec). Waiter protocol: a caller that joined an existing slot never
\* invokes f or a hook, and once released it returns exactly the (value,
\* error) the executor wrote into the slot; a slot that has been signalled
\* carries its result and is no longer in the map.
WaiterProtocol ==
  /\ \A q \in Callers :
       hist[q].role = "wait" =>
         /\ hist[q].fn = "none" /\ hist[q].ev = <<>> /\ pc[q] \in {"wait", "idle"}
         /\ pc[q] = "idle" =>
              /\ slots[ic[q]].done
              /\ ret[q].val = slots[ic[q]].val
              /\ ret[q].err = slots[ic[q]].err
  /\ \A x \in SlotIds : slots[x].done => ~InMap(x)

WaiterProtocolWitness ==
  \E q \in Callers :
    /\ hist[q].role = "wait" /\ pc[q] = "idle"
    /\ ret[q].err = "E" /\ ret[q].val # 0

\* C27 (SpecStore). Recency on hit: a Get that returns a hit for key k leaves
\* the node of k at the front of the list, the other nodes in their order,
\* and every stored value and timestamp as it was, and returns the stored
\* value.
Without(l, k) == LET Other(x) == x # k IN SelectSeq(l, Other)
RecencyOnHit ==
  [][\A k \in Keys :
       (StoreGet(k) /\ res'.found) =>
         /\ ll'[1] = k /\ elems'[k] = 1
         /\ Len(ll') = Len(ll)
         /\ Without(ll', k) = Without(ll, k)
         /\ data' = data
         /\ res'.value = data[k].Value]_vars

RecencyOnHitWitness ==
  /\ res.op = "Get" /\ res.found
  /\ Len(ll) >= 2 /\ ll[1] = res.key /\ recency[1] = res.key
  /\ ll[2] # res.key

\* C28 (SpecKey). Map fingerprint: the key of a string-keyed map, whatever
\* its value type and the length of its JSON text, is the 64-character hex
\* SHA-256, never the JSON text.
MapFingerprint ==
  (kout # NoKey /\ kin.type \in MapTypes) =>
     /\ kout.err = "nil"
     /\ kout.key.form = "sha256hex"

\* C29 (Spec). No re-insertion through the facade: a call that is about to
\* call Storage.Set for its key finds the key absent from the store.
NoReinsertion ==
  \A p \in Callers : pc[p] = "set" => KeyOf(p) \notin DOMAIN data

\* C30 (SpecStore). Index consistency: the value map and the handle map have
\* the same keys, every handle refers to a node of the list that carries its
\* key, no two keys share a node, and the list is at least as long as the
\* index.
IndexConsistency ==
  /\ DOMAIN data = DOMAIN elems
  /\ \A k \in DOMAIN elems : elems[k] \in 1 .. Len(ll) /\ ll[elems[k]] = k
  /\ Len(ll) >= Cardinality(DOMAIN elems)

IndexConsistencyWitness ==
  /\ Len(ll) > Cardinality(DOMAIN elems)
  /\ Cardinality(DOMAIN elems) >= 2
  /\ res.op = "Delete"

====
